---------------------------- MODULE Spec2Model ----------------------------
(***************************************************************************)
(* A model of the OpenNeuro metadata audit: the per-dataset audit of       *)
(* scripts/check_files.py (check_basics, the extractors, process_study)    *)
(* and the batch run of scripts/first_complete_run.py.                     *)
(*                                                                         *)
(* Names of files and tasks are sequences of one-character strings, so     *)
(* that split("_"), replace("task-", ""), splitext and lower() are         *)
(* computed as the code computes them.  A DataFrame is the sequence of its *)
(* rows; an optional value (None or a value) is a sequence of length <= 1. *)
(***************************************************************************)
EXTENDS Integers, Sequences, FiniteSets, TLC

VARIABLES
    \* the audit of one dataset (check_files.py)
    ds,            \* the dataset directory handed to the audit (the layout's answers)
    out,           \* what the audited operation gave back
    spc,           \* position of the audit: "ready" | "done"
    \* the batch run (first_complete_run.py)
    dir,           \* the dataset directories under --dir_path, by accession number
    batch_size,    \* the batch size of the run
    files,         \* the five output tables of --out_folder: the lines of each file
    files0,        \* the output tables as earlier runs left them
    pc,            \* position of the script
    study_list,    \* the datasets left to process
    ids_skipped,   \* the datasets set aside by the pre-filter
    i,             \* index of the first dataset of the current batch (from 1)
    batch,         \* the current batch
    fut,           \* the futures of the current batch: "running" | "done" | "yielded"
    batch_results, \* the result bundles collected in the current batch
    stdout,        \* the reports printed
    errlog,        \* the failures logged: <<dataset, message>>
    exit,          \* how the script ended: "" | the uncaught exception | "killed"
    \* history, kept for the properties
    history,       \* the result lists handed to append_results_to_files, in order
    dispatched,    \* the datasets submitted to a worker, in order, over all runs
    unfinished     \* the tasks still running when the timeout of as_completed expired

auditVars == <<ds, out, spc>>

batchVars == <<dir, batch_size, files, files0, pc, study_list, ids_skipped, i, batch, fut,
               batch_results, stdout, errlog, exit, history, dispatched, unfinished>>

vars == <<auditVars, batchVars>>

----------------------------------------------------------------------------
(* Bounds of the model *)

MaxFiles == 2     \* files below the top level that one layout query finds
MaxRows  == 2     \* data rows of a participants or events table
MaxFail  == 1     \* steps of one audit that raise
MaxStudies == 3   \* dataset directories under --dir_path
MaxBatch == 2     \* the batch size (batch_size is 50 in the script)
MaxAppends == 3   \* calls of append_results_to_files in a row

----------------------------------------------------------------------------
(* Python values *)

None == <<>>
Some(x) == <<x>>
NoneName == <<"None">>      \* a None in a column of names

Min(S) == CHOOSE x \in S : \A y \in S : x <= y
Max(S) == CHOOSE x \in S : \A y \in S : y <= x

\* str.lower(), on the letters the model's names use
LowerChar(c) ==
    CASE c = "R" -> "r" [] c = "E" -> "e" [] c = "S" -> "s" [] c = "T" -> "t"
      [] c = "N" -> "n" [] c = "B" -> "b" [] c = "G" -> "g" [] c = "O" -> "o"
      [] OTHER -> c

Lower(s) == [k \in 1..Len(s) |-> LowerChar(s[k])]

StartsWith(s, p) == Len(s) >= Len(p) /\ SubSeq(s, 1, Len(p)) = p

\* file.split("_")[0]
SplitLead(s) ==
    LET idx == {k \in 1..Len(s) : s[k] = "_"}
    IN  IF idx = {} THEN s ELSE SubSeq(s, 1, Min(idx) - 1)

TaskPfx == <<"t", "a", "s", "k", "-">>

\* str.replace("task-", ""): every occurrence is removed, left to right
RECURSIVE RemoveTaskPfx(_)
RemoveTaskPfx(s) ==
    IF Len(s) < Len(TaskPfx) THEN s
    ELSE IF StartsWith(s, TaskPfx)
         THEN RemoveTaskPfx(SubSeq(s, Len(TaskPfx) + 1, Len(s)))
         ELSE <<s[1]>> \o RemoveTaskPfx(Tail(s))

\* os.path.splitext(file)[1]: from the last dot, unless only dots precede it
SplitExt(s) ==
    LET dots == {k \in 1..Len(s) : s[k] = "."}
    IN  IF dots = {} THEN <<>>
        ELSE LET k == Max(dots)
             IN  IF \A j \in 1..(k - 1) : s[j] = "." THEN <<>>
                 ELSE SubSeq(s, k, Len(s))

\* the layout takes an extension with or without its leading dot
NormExt(e) == IF Len(e) > 0 /\ e[1] = "." THEN Tail(e) ELSE e

----------------------------------------------------------------------------
(* Names *)

Json == <<"j", "s", "o", "n">>
Tsv  == <<"t", "s", "v">>
Exts == {Json, Tsv}

F_CHANGES      == <<"C", "H", "A", "N", "G", "E", "S">>
F_README       == <<"R", "E", "A", "D", "M", "E">>
F_participants == <<"p", "a", "r", "t", "i", "c", "i", "p", "a", "n", "t", "s">>
F_part_json    == F_participants \o <<".">> \o Json
F_part_tsv     == F_participants \o <<".">> \o Tsv
F_description  == <<"d", "a", "t", "a", "s", "e", "t", "_", "d", "e", "s", "c",
                    "r", "i", "p", "t", "i", "o", "n", ".">> \o Json
F_scans        == <<"s", "c", "a", "n", "s", ".">> \o Tsv
F_sessions     == <<"s", "e", "s", "s", "i", "o", "n", "s", ".">> \o Tsv

\* the default of check_basics' files_to_check
files_to_check ==
    <<F_CHANGES, F_README, F_part_json, F_part_tsv, F_description, F_scans,
      F_sessions>>

EventsSfx == <<"_", "e", "v", "e", "n", "t", "s", ".">>
BoldSfx   == <<"_", "b", "o", "l", "d", ".">>

EventsJsonName(task) == TaskPfx \o task \o EventsSfx \o Json
EventsTsvName(task)  == TaskPfx \o task \o EventsSfx \o Tsv
BoldJsonName(task)   == TaskPfx \o task \o BoldSfx \o Json

\* the three names check_basics adds for one task
TaskFiles(task) == <<EventsJsonName(task), EventsTsvName(task), BoldJsonName(task)>>

\* task labels of the modelled datasets, in the order get_tasks lists them
T_Rest == <<"R", "E", "s", "t">>
T_go   == <<"g", "o">>
T_nb   == <<"n", "b">>
TaskOrder == <<T_Rest, T_go, T_nb>>
TaskUniverse == {TaskOrder[k] : k \in 1..Len(TaskOrder)}

RestPfx == <<"r", "e", "s", "t">>

\* a filter that compares the task name as it is written
NonRest_CaseSensitive(tasks) == SelectSeq(tasks, LAMBDA t : ~StartsWith(t, RestPfx))

\* [task for task in tasks if not task.lower().startswith("rest")]
NonRest(tasks) == SelectSeq(tasks, LAMBDA t : ~StartsWith(Lower(t), RestPfx))

Range(s) == {s[k] : k \in 1..Len(s)}

RECURSIVE Flatten(_)
Flatten(ss) == IF ss = <<>> THEN <<>> ELSE Head(ss) \o Flatten(Tail(ss))

----------------------------------------------------------------------------
(* The layout index of one dataset directory (pybids' BIDSLayout), as the  *)
(* answers it gives.  d.top: the files get_file finds at the top level;    *)
(* d.func[t][e]: the events files of task t with extension e below the top *)
(* level; d.scans, d.sessions: the *_scans.tsv and *_sessions.tsv files;   *)
(* d.bold[t]: the bold.json sidecars of task t below the top level.        *)

\* layout.get_file(file)
GetFile(d, file) == file \in d.top

\* a lookup that leaves the top-level files out
GetEvents_BelowTopOnly(d, task, ext) ==
    IF task \in DOMAIN d.func /\ NormExt(ext) \in Exts
    THEN d.func[task][NormExt(ext)]
    ELSE 0

\* layout.get(task=task, suffix="events", extension=ext, return_type="file"):
\* the number of files found (a top-level file of the task is one of them)
GetEvents(d, task, ext) ==
    LET e == NormExt(ext)
    IN  IF task \in DOMAIN d.func /\ e \in Exts
        THEN d.func[task][e]
             + (IF (TaskPfx \o task \o EventsSfx \o e) \in d.top THEN 1 ELSE 0)
        ELSE 0

\* layout.get(suffix=..., extension="tsv", return_type="file") for scans, sessions
GetScans(d) == d.scans
GetSessionsTsv(d) == d.sessions

----------------------------------------------------------------------------
(* check_basics *)

Row(study, file, location, n_files, presence) ==
    [study_id |-> study, file |-> file, location |-> location,
     n_files |-> n_files, presence |-> presence]

\* a presence flag that compares with a location no row carries
PresenceOf_WrongLiteral(location) == IF location = "Missing" THEN 0 ELSE 1

\* np.where(location == "missing", 0, 1)
PresenceOf(location) == IF location = "missing" THEN 0 ELSE 1

EndsWith(s, p) == Len(s) >= Len(p) /\ SubSeq(s, Len(s) - Len(p) + 1, Len(s)) = p

\* a loop body that looks a bold sidecar up under its own suffix
Classify_OwnSuffix(d, non_rest, file) ==
    IF file = F_scans
    THEN <<IF GetScans(d) > 0 THEN "lower" ELSE "missing", GetScans(d)>>
    ELSE IF file = F_sessions
    THEN <<IF GetSessionsTsv(d) > 0 THEN "lower" ELSE "missing", GetSessionsTsv(d)>>
    ELSE IF GetFile(d, file)
    THEN <<"top", 1>>
    ELSE LET task_lab == RemoveTaskPfx(SplitLead(file))
         IN  IF task_lab \in Range(non_rest)
             THEN LET n == IF EndsWith(file, BoldSfx \o Json)
                           THEN d.bold[task_lab]
                           ELSE GetEvents(d, task_lab, SplitExt(file))
                  IN  <<IF n > 0 THEN "func" ELSE "missing", n>>
             ELSE <<"missing", 0>>

\* a loop body that asks for the exact top-level name first
Classify_TopFirst(d, non_rest, file) ==
    IF GetFile(d, file)
    THEN <<"top", 1>>
    ELSE IF file = F_scans
    THEN <<IF GetScans(d) > 0 THEN "lower" ELSE "missing", GetScans(d)>>
    ELSE IF file = F_sessions
    THEN <<IF GetSessionsTsv(d) > 0 THEN "lower" ELSE "missing", GetSessionsTsv(d)>>
    ELSE LET task_lab == RemoveTaskPfx(SplitLead(file))
         IN  IF task_lab \in Range(non_rest)
             THEN LET n == GetEvents(d, task_lab, SplitExt(file))
                  IN  <<IF n > 0 THEN "func" ELSE "missing", n>>
             ELSE <<"missing", 0>>

\* one pass of the loop over study_files_to_check: <<status, n_files>>
Classify(d, non_rest, file) ==
    IF file = F_scans
    THEN <<IF GetScans(d) > 0 THEN "lower" ELSE "missing", GetScans(d)>>
    ELSE IF file = F_sessions
    THEN <<IF GetSessionsTsv(d) > 0 THEN "lower" ELSE "missing", GetSessionsTsv(d)>>
    ELSE IF GetFile(d, file)
    THEN <<"top", 1>>
    ELSE LET task_lab == RemoveTaskPfx(SplitLead(file))
         IN  IF task_lab \in Range(non_rest)
             THEN LET n == GetEvents(d, task_lab, SplitExt(file))
                  IN  <<IF n > 0 THEN "func" ELSE "missing", n>>
             ELSE <<"missing", 0>>

\* an error row that carries the conflict token whatever the failure
ErrorRow_AlwaysConflict(study, token) ==
    <<Row(study, NoneName, "None", "None", "bids_conflict_error")>>

\* the single row check_basics gives back when indexing raises
ErrorRow(study, token) == <<Row(study, NoneName, "None", "None", token)>>

check_basics(layout_bids, study) ==
    IF layout_bids = None
    THEN ErrorRow(study, "bids_conflict_error")     \* None.get_tasks(): except Exception
    ELSE LET d == layout_bids[1]
         IN  IF d.check_err = "conflict"
             THEN ErrorRow(study, "bids_conflict_error")
             ELSE IF d.check_err = "validation"
             THEN ErrorRow(study, "bids_validation_error")
             ELSE IF d.check_err = "other"
             THEN ErrorRow(study, "bids_conflict_error")
             ELSE LET non_rest == NonRest(d.tasks)
                      study_files_to_check ==
                          files_to_check
                            \o Flatten([k \in 1..Len(non_rest) |-> TaskFiles(non_rest[k])])
                  IN  [k \in 1..Len(study_files_to_check) |->
                          LET c == Classify(d, non_rest, study_files_to_check[k])
                          IN  Row(study, study_files_to_check[k], c[1], c[2],
                                  PresenceOf(c[1]))]

----------------------------------------------------------------------------
(* basic_layout: the layout and what it lists.  d.subs lists, per subject  *)
(* of the raw layout, the number of sessions the layout finds for it;      *)
(* d.deriv_subs the same for the derivative layout built when the raw one  *)
(* has no subject.                                                         *)

\* a count that stays 0 when the layout lists nothing
OrDefault_Keep(n) == n

\* "if not runs: runs = [1]", "if not sessions: sessions = ['01']": the
\* length of the list after the default
OrDefault(n) == IF n = 0 THEN 1 ELSE n

\* a layout handed on although its construction failed
basic_layout_Unchecked(d) ==
    [layout   |-> Some(d),
     subs     |-> d.subs,
     tasks    |-> d.tasks,
     non_rest |-> NonRest(d.tasks),
     runs     |-> OrDefault(d.runs),
     sessions |-> OrDefault(d.nsessions),
     dir_type |-> "bids_input"]

basic_layout(d) ==
    IF ~d.built
    THEN [layout |-> None, subs |-> <<>>, tasks |-> <<>>, non_rest |-> <<>>,
          runs |-> 0, sessions |-> 0, dir_type |-> "bids_error"]
    ELSE LET raw == Len(d.subs) > 0
         IN  [layout   |-> Some(d),
              subs     |-> IF raw THEN d.subs ELSE d.deriv_subs,
              tasks    |-> d.tasks,
              non_rest |-> NonRest(d.tasks),
              runs     |-> OrDefault(d.runs),
              sessions |-> OrDefault(d.nsessions),
              dir_type |-> IF raw THEN "bids_input" ELSE "bids_derivative"]

----------------------------------------------------------------------------
(* The extractors.  Each gives [exc |-> "" or the exception, df |-> rows]. *)

Returned(df) == [exc |-> "", df |-> df]
Raised(e) == [exc |-> e, df |-> <<>>]

\* max(..., default=1) and min(..., default=1) over the subjects' session counts
MaxDefault(s, dflt) == IF s = <<>> THEN dflt ELSE Max(Range(s))
MinDefault(s, dflt) == IF s = <<>> THEN dflt ELSE Min(Range(s))

compile_study_df(open_id, d, subs, tasks, runs, sessions, type_dir) ==
    IF <<"summary">> \in d.fail
    THEN Raised("Exception")
    ELSE Returned(<<[study_id      |-> open_id,
                     root_type     |-> type_dir,
                     num_subs      |-> Len(subs),
                     num_tasks     |-> Len(tasks),
                     num_runs      |-> runs,
                     num_sessions  |-> sessions,
                     max_sessions  |-> MaxDefault(subs, 1),
                     min_sessions  |-> MinDefault(subs, 1),
                     tasks         |-> tasks,
                     nonrest_tasks |-> NonRest(tasks)]>>)

\* the keys of dataset_description.json
DescriptionKeys == <<"Name", "BIDSVersion">>

create_df_descriptor(d, open_id) ==
    IF <<"descriptor">> \in d.fail
    THEN Raised("Exception")
    ELSE Returned([k \in 1..Len(DescriptionKeys) |->
                     [study_id |-> open_id, key |-> DescriptionKeys[k],
                      value |-> <<"description", DescriptionKeys[k]>>]])

\* a melt that keeps the study_id column
MeltCols_KeepStudyId(table) == table.cols

\* the long form of a table: for each row, for each column but study_id
MeltCols(table) == SelectSeq(table.cols, LAMBDA c : c # "study_id")

Melt(table) ==
    LET cols == MeltCols(table)
    IN  Flatten([r \in 1..table.nrows |->
                   [c \in 1..Len(cols) |-> [key |-> cols[c], value |-> <<r, cols[c]>>]]])

\* a tag that is 1 whatever the sidecar holds
IsIn_Always(key, json_keys) == 1

\* key.isin(json_keys).astype(int)
IsIn(key, json_keys) == IF key \in json_keys THEN 1 ELSE 0

process_participant_data(d, open_id, part_json_exists) ==
    IF ~GetFile(d, F_part_tsv)
    THEN Raised("FileNotFoundError")
    ELSE IF <<"participant_unicode">> \in d.fail
    THEN Raised("UnicodeDecodeError")
    ELSE IF <<"participant">> \in d.fail
    THEN Raised("Exception")
    ELSE LET long == Melt(d.part)
             json_keys == IF GetFile(d, F_part_json) THEN d.part_keys ELSE {}
         IN  IF part_json_exists
             THEN IF long = <<>>
                  THEN Raised("KeyError")      \* an empty frame has no "key" column
                  ELSE Returned([k \in 1..Len(long) |->
                         [study_id |-> open_id, key |-> long[k].key,
                          value |-> long[k].value,
                          partkeys_in_json |-> IsIn(long[k].key, json_keys)]])
             ELSE Returned([k \in 1..Len(long) |->
                         [study_id |-> open_id, key |-> long[k].key,
                          value |-> long[k].value,
                          partkeys_in_json |-> "json_notavailable"]])

process_event_data(d, open_id, task, events_json_exists) ==
    IF GetEvents(d, task, Tsv) = 0
    THEN Raised("FileNotFoundError")
    ELSE IF (<<"event">> \o task) \in d.fail
    THEN Raised("Exception")
    ELSE LET long == Melt(d.ev[task])
             json_keys == IF GetEvents(d, task, Json) > 0 THEN d.ev_keys[task] ELSE {}
         IN  IF events_json_exists
             THEN IF long = <<>>
                  THEN Raised("KeyError")      \* an empty frame has no "key" column
                  ELSE Returned([k \in 1..Len(long) |->
                         [study_id |-> open_id, task |-> task, key |-> long[k].key,
                          value |-> long[k].value,
                          eventkeys_in_json |-> IsIn(long[k].key, json_keys)]])
             ELSE Returned([k \in 1..Len(long) |->
                         [study_id |-> open_id, task |-> task, key |-> long[k].key,
                          value |-> long[k].value,
                          eventkeys_in_json |-> "json_notavailable"]])

----------------------------------------------------------------------------
(* process_study.  It gives [exc, bundle, calls]: exc is "" and bundle the *)
(* result when it returns; exc names the exception that leaves it          *)
(* otherwise.  calls lists the steps it attempted.                         *)

\* bool(a presence value): 0 is false, 1 and any non-empty text are true
PyBool(p) == p # 0

\* a file_present that asks only whether the file has a row
file_present_RowExists(basics_df, filename) ==
    SelectSeq(basics_df, LAMBDA r : r.file = filename) # <<>>

\* a file_present that takes every file as present
file_present_Assumed(basics_df, filename) == TRUE

\* the helper file_present of process_study
file_present(basics_df, filename) ==
    LET matched == SelectSeq(basics_df, LAMBDA r : r.file = filename)
    IN  IF matched # <<>> THEN PyBool(matched[1].presence) ELSE FALSE

EventCall(task) == <<"event">> \o task

\* a pass that extracts the events whatever the row of the task's table says
EventStep_Unguarded(d, open_id, basics_df, task_name) ==
    LET r == process_event_data(d, open_id, task_name,
                                file_present(basics_df, EventsJsonName(task_name)))
    IN  [calls  |-> {EventCall(task_name)},
         events |-> IF r.exc = "" THEN <<r.df>> ELSE <<>>]

\* one pass of the loop over study_nonrest: [calls, events]
EventStep(d, open_id, basics_df, task_name) ==
    LET task_json_exists == file_present(basics_df, EventsJsonName(task_name))
        task_tsv_exists  == file_present(basics_df, EventsTsvName(task_name))
        r == process_event_data(d, open_id, task_name, task_json_exists)
    IN  IF ~task_tsv_exists
        THEN [calls |-> {}, events |-> <<>>]
        ELSE [calls  |-> {EventCall(task_name)},
              events |-> IF r.exc = "" THEN <<r.df>> ELSE <<>>]

process_study(open_neuro_id, d) ==
    LET bl == basic_layout(d)
        basics_df == check_basics(bl.layout, open_neuro_id)
        result == [basics |-> basics_df, compilesumm |-> None, descriptor |-> None,
                   participant |-> None, events |-> <<>>]
    IN  IF bl.layout = None
        THEN [exc |-> "", bundle |-> Some(result), calls |-> {}]
        ELSE
        LET summ == compile_study_df(open_neuro_id, d, bl.subs, bl.tasks, bl.runs,
                                     bl.sessions, bl.dir_type)
            desc == create_df_descriptor(d, open_neuro_id)
            part_present == file_present(basics_df, F_part_tsv)
            part == process_participant_data(d, open_neuro_id,
                                             file_present(basics_df, F_part_json))
            steps == [k \in 1..Len(bl.non_rest) |->
                         EventStep(d, open_neuro_id, basics_df, bl.non_rest[k])]
        IN  IF summ.exc # ""
            THEN [exc |-> summ.exc, bundle |-> None, calls |-> {<<"summary">>}]
            ELSE IF desc.exc # ""
            THEN [exc |-> desc.exc, bundle |-> None,
                  calls |-> {<<"summary">>, <<"descriptor">>}]
            ELSE [exc |-> "",
                  bundle |-> Some(
                     [basics      |-> basics_df,
                      compilesumm |-> Some(summ.df),
                      descriptor  |-> Some(desc.df),
                      participant |-> IF part_present /\ part.exc = ""
                                      THEN Some(part.df) ELSE None,
                      events      |-> Flatten([k \in 1..Len(steps) |-> steps[k].events])]),
                  calls |-> {<<"summary">>, <<"descriptor">>}
                            \cup (IF part_present THEN {<<"participant">>} ELSE {})
                            \cup UNION {steps[k].calls : k \in 1..Len(steps)}]

----------------------------------------------------------------------------
(* The datasets the audit is run on *)

StudyId == "ds000001"

NoFunc == [t \in TaskUniverse |-> [e \in Exts |-> 0]]

\* the task lists get_tasks can give: the sub-lists of TaskOrder
TaskLists == {SelectSeq(TaskOrder, LAMBDA t : t \in S) : S \in SUBSET TaskUniverse}

\* tables: their columns in file order, and their number of data rows
EventCols == {<<"study_id">>, <<"onset", "study_id">>, <<"onset", "duration">>}
PartCols(ecols) ==
    [k \in 1..Len(ecols) |->
        CASE ecols[k] = "onset" -> "participant_id"
          [] ecols[k] = "duration" -> "age"
          [] OTHER -> ecols[k]]

Dataset(built, check_err, tasks, top, func, scans, sessions, fail, cols, nrows, keys) ==
    [built      |-> built,
     check_err  |-> check_err,
     tasks      |-> tasks,
     top        |-> top,
     func       |-> func,
     scans      |-> scans,
     sessions   |-> sessions,
     bold       |-> [t \in TaskUniverse |-> 1],
     subs       |-> <<1, 2>>,
     deriv_subs |-> <<>>,
     runs       |-> 0,
     nsessions  |-> 2,
     fail       |-> fail,
     part       |-> [cols |-> PartCols(cols), nrows |-> nrows],
     part_keys  |-> IF keys THEN {"age"} ELSE {},
     ev         |-> [t \in TaskUniverse |-> [cols |-> cols, nrows |-> nrows]],
     ev_keys    |-> [t \in TaskUniverse |-> IF keys THEN {"onset"} ELSE {}]]

CheckErrs == {"none", "conflict", "validation", "other"}

\* the subjects a layout lists, each with the number of its sessions
SubjectLists == {<<>>, <<0>>, <<1>>, <<0, 1>>, <<1, 2>>}

\* top-level files the directories of the file check may hold
BasicsTop ==
    {F_README, F_part_tsv, F_scans, EventsJsonName(T_nb), BoldJsonName(T_go)}

\* top-level files the directories of the whole audit may hold
StudyTop == {F_part_tsv, F_part_json, EventsTsvName(T_nb), EventsJsonName(T_nb)}

FailSteps ==
    {<<"summary">>, <<"descriptor">>, <<"participant">>, <<"participant_unicode">>,
     EventCall(T_go), EventCall(T_nb)}

FailSets == {F \in SUBSET FailSteps : Cardinality(F) <= MaxFail}

----------------------------------------------------------------------------
(* The batch run: its output tables *)

Tables == {"basics", "compilesumm", "descriptor", "participant", "events"}

NoFiles == [t \in Tables |-> <<>>]          \* no output file exists

HeaderLine(table) == [header |-> table]

\* the DataFrames of one table in a list of result bundles (lines 35-39)
Extract(results, table) ==
    Flatten([k \in 1..Len(results) |->
        CASE table = "basics"      -> <<results[k].basics>>
          [] table = "compilesumm" -> results[k].compilesumm
          [] table = "descriptor"  -> results[k].descriptor
          [] table = "participant" -> results[k].participant
          [] table = "events"      -> results[k].events])

\* a write that truncates the file (mode "w") also when it exists
WriteTable_Truncate(file, table, rows) == <<HeaderLine(table)>> \o rows

\* a write that puts the header before every batch
WriteTable_HeaderEachTime(file, table, rows) == file \o <<HeaderLine(table)>> \o rows

\* df.to_csv: appended without header when the file exists, else created with it
WriteTable(file, table, rows) ==
    IF file # <<>>
    THEN file \o rows
    ELSE <<HeaderLine(table)>> \o rows

\* one table's part of append_results_to_files
AppendTable(file, table, results) ==
    LET dfs == Extract(results, table)
    IN  IF dfs = <<>> THEN file ELSE WriteTable(file, table, Flatten(dfs))

\* the order in which append_results_to_files writes the tables
TableOrder == <<"basics", "compilesumm", "descriptor", "participant", "events">>

\* append_results_to_files, stopped after its first n tables (n = 5: all of it)
AppendUpTo(fs, results, n) ==
    IF results = <<>>
    THEN fs
    ELSE [t \in Tables |->
            IF \E k \in 1..n : TableOrder[k] = t
            THEN AppendTable(fs[t], t, results)
            ELSE fs[t]]

append_results_to_files(fs, results) == AppendUpTo(fs, results, Len(TableOrder))

----------------------------------------------------------------------------
(* The batch run: the dataset directories *)

FileCeiling == 900          \* a directory with more entries is skipped
ResumeAfter == 4146         \* "ds004146", the dataset the run resumes after

\* the accession numbers of the modelled directories: ds004145, ds004146, ...
IdPool == 4145..(4144 + MaxStudies)

SampleFull ==
    Dataset(TRUE, "none", <<T_nb>>, {F_part_tsv, EventsTsvName(T_nb)}, NoFunc, 0, 0,
            {}, <<"onset", "study_id">>, 1, FALSE)
SampleBare ==
    Dataset(FALSE, "none", <<>>, {}, NoFunc, 0, 0, {}, <<"onset", "study_id">>, 1, FALSE)
SampleRaises ==
    Dataset(TRUE, "none", <<T_nb>>, {F_part_tsv}, NoFunc, 0, 0,
            {<<"descriptor">>}, <<"onset", "study_id">>, 1, FALSE)

\* a directory: the number of its entries (-1: iterdir raises OSError) and its content
Directory(kind) ==
    CASE kind = "full"       -> [count |-> FileCeiling,     data |-> SampleFull]
      [] kind = "bare"       -> [count |-> 1,               data |-> SampleBare]
      [] kind = "raises"     -> [count |-> 2,               data |-> SampleRaises]
      [] kind = "over"       -> [count |-> FileCeiling + 1, data |-> SampleFull]
      [] kind = "unreadable" -> [count |-> -1,              data |-> SampleFull]

DirKinds == {"full", "bare", "raises", "over", "unreadable"}

\* sorted(names)
RECURSIVE Sorted(_)
Sorted(S) == IF S = {} THEN <<>> ELSE <<Min(S)>> \o Sorted(S \ {Min(S)})

\* a ceiling that lets a directory of FileCeiling + 1 entries through
TooManyFiles_OffByOne(file_count) == file_count > FileCeiling + 1

\* file_count > 900
TooManyFiles(file_count) == file_count > FileCeiling

\* the pre-filter (lines 99-111): TRUE for a dataset that is skipped
Skipped(d) == d.count < 0 \/ TooManyFiles(d.count)

IndexOf(s, x) == Min({k \in 1..Len(s) : s[k] = x})

\* lines 123-125: resume after ds004146 when it is in the list
Resume(list) ==
    IF ResumeAfter \in Range(list)
    THEN SubSeq(list, IndexOf(list, ResumeAfter) + 1, Len(list))
    ELSE list

\* the output tables an earlier run left: one batch, of one other dataset
PriorFiles == append_results_to_files(NoFiles, process_study(4000, SampleFull).bundle)

\* the output tables an earlier run on the directories d left, with batches
\* of one dataset: the rows of its first dataset, when the audit gave a bundle
RerunFiles(d) ==
    LET names == Sorted(DOMAIN d)
        list  == Resume(SelectSeq(names, LAMBDA id : ~Skipped(d[id])))
    IN  IF list = <<>>
        THEN NoFiles
        ELSE append_results_to_files(NoFiles, process_study(list[1], d[list[1]].data).bundle)

\* the worker task of a dataset: process_study on its directory
Worker(id) == process_study(id, dir[id].data)

----------------------------------------------------------------------------
(* Each specification runs one part of the program; the rest stays idle *)

AuditIdle == ds = <<>> /\ out = None /\ spc = "off"

BatchIdle ==
    /\ dir = <<>> /\ batch_size = 1 /\ files = NoFiles /\ files0 = NoFiles /\ pc = "off"
    /\ study_list = <<>> /\ ids_skipped = <<>> /\ i = 1 /\ batch = <<>> /\ fut = <<>>
    /\ batch_results = <<>> /\ stdout = <<>> /\ errlog = <<>> /\ exit = ""
    /\ history = <<>> /\ dispatched = <<>> /\ unfinished = {}

----------------------------------------------------------------------------
(* The file check alone: check_basics on the layout basic_layout built *)

InitBasics ==
    /\ \/ \E tasks \in TaskLists, top \in SUBSET BasicsTop,
             j \in 0..MaxFiles, t \in 0..MaxFiles, sc \in 0..MaxFiles, se \in 0..1 :
             ds = Dataset(TRUE, "none", tasks, top,
                          [x \in TaskUniverse |->
                              [e \in Exts |-> IF e = Json THEN j ELSE t]],
                          sc, se, {}, <<"onset", "study_id">>, 1, FALSE)
       \/ \E built \in BOOLEAN, err \in CheckErrs, tasks \in TaskLists :
             /\ ~built \/ err # "none"
             /\ ds = Dataset(built, err, tasks, {F_README}, NoFunc, 0, 0, {},
                             <<"onset", "study_id">>, 1, FALSE)
    /\ out = None
    /\ spc = "ready"
    /\ BatchIdle

CheckBasics ==
    /\ spc = "ready"
    /\ out' = check_basics(basic_layout(ds).layout, StudyId)
    /\ spc' = "done"
    /\ UNCHANGED <<ds, batchVars>>

NextBasics == CheckBasics

SpecBasics == InitBasics /\ [][NextBasics]_vars

----------------------------------------------------------------------------
(* The audit of one dataset: process_study *)

InitStudy ==
    /\ \/ \E tasks \in TaskLists, top \in SUBSET StudyTop, j \in 0..1, t \in 0..1,
             fail \in FailSets, cols \in EventCols, nrows \in 0..MaxRows,
             keys \in BOOLEAN :
             ds = Dataset(TRUE, "none", tasks, top,
                          [x \in TaskUniverse |->
                              [e \in Exts |-> IF e = Json THEN j ELSE t]],
                          0, 0, fail, cols, nrows, keys)
       \/ \E built \in BOOLEAN, err \in CheckErrs, tasks \in TaskLists,
             top \in SUBSET StudyTop, fail \in FailSets :
             /\ ~built \/ err # "none"
             /\ ds = Dataset(built, err, tasks, top,
                             [x \in TaskUniverse |-> [e \in Exts |-> 1]],
                             0, 0, fail, <<"onset", "duration">>, 1, TRUE)
       \/ \E tasks \in TaskLists, r \in 0..MaxFiles, n \in 0..MaxFiles,
             raw \in SubjectLists, deriv \in SubjectLists :
             /\ \A k \in 1..Len(raw) : raw[k] <= n
             /\ \A k \in 1..Len(deriv) : deriv[k] <= n
             /\ ds = [Dataset(TRUE, "none", tasks, {F_part_tsv}, NoFunc, 0, 0, {},
                              <<"onset", "study_id">>, 1, FALSE)
                         EXCEPT !.runs = r, !.nsessions = n,
                                !.subs = raw, !.deriv_subs = deriv]
    /\ out = None
    /\ spc = "ready"
    /\ BatchIdle

ProcessStudy ==
    /\ spc = "ready"
    /\ out' = process_study(StudyId, ds)
    /\ spc' = "done"
    /\ UNCHANGED <<ds, batchVars>>

NextStudy == ProcessStudy

SpecStudy == InitStudy /\ [][NextStudy]_vars

----------------------------------------------------------------------------
(* The extractors alone: process_participant_data or process_event_data on *)
(* a layout, with the sidecar flag the caller passes.  ds holds the        *)
(* directory, the extractor called and the flag.                           *)

Extractors == {"participant", "event"}

InitRecords ==
    /\ \E top \in SUBSET StudyTop, j \in 0..1, t \in 0..1, cols \in EventCols,
          nrows \in 0..MaxRows, keys \in BOOLEAN, which \in Extractors,
          json_exists \in BOOLEAN :
          ds = [data |-> Dataset(TRUE, "none", <<T_nb>>, top,
                                 [x \in TaskUniverse |->
                                     [e \in Exts |-> IF e = Json THEN j ELSE t]],
                                 0, 0, {}, cols, nrows, keys),
                which |-> which,
                json_exists |-> json_exists]
    /\ out = None
    /\ spc = "ready"
    /\ BatchIdle

ExtractRecords ==
    /\ spc = "ready"
    /\ out' = IF ds.which = "participant"
              THEN process_participant_data(ds.data, StudyId, ds.json_exists)
              ELSE process_event_data(ds.data, StudyId, T_nb, ds.json_exists)
    /\ spc' = "done"
    /\ UNCHANGED <<ds, batchVars>>

NextRecords == ExtractRecords

SpecRecords == InitRecords /\ [][NextRecords]_vars

----------------------------------------------------------------------------
(* The batch run: the script of first_complete_run.py *)

SkippedReport(title, ids) == [title |-> title, ids |-> ids]

\* the state of a script that is not running
Halted ==
    /\ study_list' = <<>> /\ ids_skipped' = <<>> /\ i' = 1 /\ batch' = <<>>
    /\ fut' = <<>> /\ batch_results' = <<>>

InitBatch ==
    /\ AuditIdle
    /\ \E kinds \in [IdPool -> DirKinds \cup {"absent"}] :
          dir = [id \in {x \in IdPool : kinds[x] # "absent"} |-> Directory(kinds[id])]
    /\ batch_size \in 1..MaxBatch
    /\ files0 \in {NoFiles, PriorFiles, RerunFiles(dir)}
    /\ files = files0
    /\ pc = "start"
    /\ study_list = <<>> /\ ids_skipped = <<>> /\ i = 1 /\ batch = <<>> /\ fut = <<>>
    /\ batch_results = <<>> /\ stdout = <<>> /\ errlog = <<>> /\ exit = ""
    /\ history = <<>> /\ dispatched = <<>> /\ unfinished = {}

\* lines 94-128: list the directories, set the big ones aside, report them, resume
Startup ==
    /\ pc = "start"
    /\ LET names    == Sorted(DOMAIN dir)
           skipped  == SelectSeq(names, LAMBDA id : Skipped(dir[id]))
           filtered == SelectSeq(names, LAMBDA id : ~Skipped(dir[id]))
       IN  /\ ids_skipped' = skipped
           /\ study_list' = Resume(filtered)
           /\ stdout' = IF skipped # <<>>
                        THEN Append(stdout, SkippedReport("SKIPPED DATASETS", skipped))
                        ELSE stdout
    /\ i' = 1
    /\ pc' = "loop"
    /\ UNCHANGED <<auditVars, dir, batch_size, files, files0, batch, fut, batch_results,
                   errlog, exit, history, dispatched, unfinished>>

\* lines 133-143: the next batch; one task per dataset is submitted to the pool
BeginBatch ==
    /\ pc = "loop"
    /\ i <= Len(study_list)
    /\ batch' = SubSeq(study_list, i, Min({i + batch_size - 1, Len(study_list)}))
    /\ fut' = [d \in Range(batch') |-> "running"]
    /\ dispatched' = dispatched \o batch'
    /\ batch_results' = <<>>
    /\ pc' = "collect"
    /\ UNCHANGED <<auditVars, dir, batch_size, files, files0, study_list, ids_skipped, i,
                   stdout, errlog, exit, history, unfinished>>

\* a worker ends its task: process_study returned or raised
TaskFinish(d) ==
    /\ pc \in {"collect", "unwind"}
    /\ fut[d] = "running"
    /\ fut' = [fut EXCEPT ![d] = "done"]
    /\ UNCHANGED <<auditVars, dir, batch_size, files, files0, pc, study_list, ids_skipped,
                   i, batch, batch_results, stdout, errlog, exit, history, dispatched,
                   unfinished>>

\* lines 144-156: as_completed yields a finished future; its result is kept
\* or its exception logged
Collect(d) ==
    /\ pc = "collect"
    /\ fut[d] = "done"
    /\ fut' = [fut EXCEPT ![d] = "yielded"]
    /\ LET r == Worker(d)
       IN  IF r.exc = ""
           THEN /\ batch_results' = batch_results \o r.bundle
                /\ UNCHANGED errlog
           ELSE /\ errlog' = Append(errlog, <<d, "failed">>)
                /\ UNCHANGED batch_results
    /\ UNCHANGED <<auditVars, dir, batch_size, files, files0, pc, study_list, ids_skipped,
                   i, batch, stdout, exit, history, dispatched, unfinished>>

\* line 144: the 3600 s of as_completed are over while it waits for futures;
\* its TimeoutError is raised outside the try of lines 148-156
WaitTimeout ==
    /\ pc = "collect"
    /\ \E d \in DOMAIN fut : fut[d] # "yielded"
    /\ unfinished' = {d \in DOMAIN fut : fut[d] = "running"}
    /\ pc' = "unwind"
    /\ UNCHANGED <<auditVars, dir, batch_size, files, files0, study_list, ids_skipped, i,
                   batch, fut, batch_results, stdout, errlog, exit, history, dispatched>>

\* line 139: the with block waits for the pool's tasks, then the TimeoutError
\* leaves the script
Unwound ==
    /\ pc = "unwind"
    /\ \A d \in DOMAIN fut : fut[d] # "running"
    /\ pc' = "crashed"
    /\ exit' = "TimeoutError"
    /\ UNCHANGED <<auditVars, dir, batch_size, files, files0, study_list, ids_skipped, i,
                   batch, fut, batch_results, stdout, errlog, history, dispatched,
                   unfinished>>

BatchDrained == pc = "collect" /\ \A d \in DOMAIN fut : fut[d] = "yielded"

\* lines 163-168 with no result collected: on to the next batch
EndBatchEmpty ==
    /\ BatchDrained
    /\ batch_results = <<>>
    /\ i' = i + batch_size
    /\ pc' = "loop"
    /\ UNCHANGED <<auditVars, dir, batch_size, files, files0, study_list, ids_skipped,
                   batch, fut, batch_results, stdout, errlog, exit, history, dispatched,
                   unfinished>>

\* an append made as soon as a result is collected, tasks still running
EndBatchAppend_Early ==
    /\ pc = "collect"
    /\ batch_results # <<>>
    /\ files' = append_results_to_files(files, batch_results)
    /\ history' = Append(history, batch_results)
    /\ pc' = "crashed"
    /\ exit' = "NameError"
    /\ UNCHANGED <<auditVars, dir, batch_size, files0, study_list, ids_skipped, i, batch,
                   fut, batch_results, stdout, errlog, dispatched, unfinished>>

\* lines 168-170: the batch's results are appended; the log line that follows
\* reads all_results, which no line defines: NameError
EndBatchAppend ==
    /\ BatchDrained
    /\ batch_results # <<>>
    /\ files' = append_results_to_files(files, batch_results)
    /\ history' = Append(history, batch_results)
    /\ pc' = "crashed"
    /\ exit' = "NameError"
    /\ UNCHANGED <<auditVars, dir, batch_size, files0, study_list, ids_skipped, i, batch,
                   fut, batch_results, stdout, errlog, dispatched, unfinished>>

\* lines 172-180: after the last batch, the skipped datasets are printed again
FinalReport ==
    /\ pc = "loop"
    /\ i > Len(study_list)
    /\ stdout' = IF ids_skipped # <<>>
                 THEN Append(stdout,
                        SkippedReport("SKIPPED DATASETS - Rerun these individually",
                                      ids_skipped))
                 ELSE stdout
    /\ pc' = "done"
    /\ UNCHANGED <<auditVars, dir, batch_size, files, files0, study_list, ids_skipped, i,
                   batch, fut, batch_results, errlog, exit, history, dispatched,
                   unfinished>>

\* the process is killed (or the machine stops) anywhere outside the append
Kill ==
    /\ pc \in {"loop", "collect", "unwind"}
    /\ pc' = "crashed"
    /\ exit' = "killed"
    /\ Halted
    /\ UNCHANGED <<auditVars, dir, batch_size, files, files0, stdout, errlog, history,
                   dispatched, unfinished>>

\* the process is killed inside append_results_to_files, after n of its tables
KillInAppend(n) ==
    /\ BatchDrained
    /\ batch_results # <<>>
    /\ files' = AppendUpTo(files, batch_results, n)
    /\ pc' = "crashed"
    /\ exit' = "killed"
    /\ Halted
    /\ UNCHANGED <<auditVars, dir, batch_size, files0, stdout, errlog, history, dispatched,
                   unfinished>>

NextBatch ==
    \/ Startup
    \/ BeginBatch
    \/ \E d \in DOMAIN fut : TaskFinish(d)
    \/ \E d \in DOMAIN fut : Collect(d)
    \/ WaitTimeout
    \/ Unwound
    \/ EndBatchEmpty
    \/ EndBatchAppend
    \/ FinalReport
    \/ Kill
    \/ \E n \in 1..(Len(TableOrder) - 1) : KillInAppend(n)

SpecBatch == InitBatch /\ [][NextBatch]_vars


----------------------------------------------------------------------------
(* append_results_to_files called again and again on one output folder *)

\* the result lists of the calls: the bundles of up to two datasets, the
\* datasets of the n-th call numbered 5000 + 10 n and 5001 + 10 n
ResultLists(n) ==
    LET full == process_study(5000 + 10 * n, SampleFull).bundle
        bare == process_study(5001 + 10 * n, SampleBare).bundle
    IN  {<<>>, full, bare, full \o bare, bare \o full}

InitAppend ==
    /\ AuditIdle
    /\ dir = <<>> /\ batch_size = 1 /\ files = NoFiles /\ files0 = NoFiles
    /\ pc = "append"
    /\ study_list = <<>> /\ ids_skipped = <<>> /\ i = 1 /\ batch = <<>> /\ fut = <<>>
    /\ batch_results = <<>> /\ stdout = <<>> /\ errlog = <<>> /\ exit = ""
    /\ history = <<>> /\ dispatched = <<>> /\ unfinished = {}

AppendResults ==
    /\ pc = "append"
    /\ Len(history) < MaxAppends
    /\ \E results \in ResultLists(Len(history) + 1) :
          /\ files' = append_results_to_files(files, results)
          /\ history' = Append(history, results)
    /\ UNCHANGED <<auditVars, dir, batch_size, files0, pc, study_list, ids_skipped, i,
                   batch, fut, batch_results, stdout, errlog, exit, dispatched,
                   unfinished>>

NextAppend == AppendResults

SpecAppend == InitAppend /\ [][NextAppend]_vars

----------------------------------------------------------------------------
(* The single-dataset run: the script of run_metacheck.py.  ds is the       *)
(* dataset as the repository serves it, with what goes wrong in the run;    *)
(* out is what the run leaves: its exit code and the files it wrote.        *)

\* clone_data(openneuro_study, output_dir): the clone of the dataset's file
\* tree in the target directory, or the failure of the fetch
clone_data(remote) ==
    IF remote.clone_fails
    THEN [exc |-> "FetchFailure", data |-> SampleBare]
    ELSE [exc |-> "", data |-> remote.data]

\* save_results_to_files: the files written, and the exception when the
\* output folder cannot be written after the first file
save_results_to_files(results, write_fails) ==
    LET all == {"basics"}
                 \cup (IF results.compilesumm # None THEN {"compilesumm"} ELSE {})
                 \cup (IF results.descriptor # None THEN {"descriptor"} ELSE {})
                 \cup (IF results.participant # None THEN {"participant"} ELSE {})
                 \cup {"events"}
    IN  IF write_fails
        THEN [exc |-> "OSError", written |-> {"basics"}]
        ELSE [exc |-> "", written |-> all]

\* a run that goes on after a failed clone
AfterClone_GoesOn(c) == None

\* lines 76-82: the exit code after the clone, None when the run goes on
AfterClone(c) == IF c.exc # "" THEN Some(1) ELSE None

\* lines 84-99: process_study, the save and the exit code
AfterProcess(r, write_fails) ==
    IF r.exc # ""
    THEN [code |-> 1, written |-> {}]
    ELSE IF r.bundle = None
    THEN [code |-> 1, written |-> {}]
    ELSE LET saved == save_results_to_files(r.bundle[1], write_fails)
         IN  IF saved.exc # ""
             THEN [code |-> 1, written |-> saved.written]
             ELSE [code |-> 0, written |-> saved.written]

\* the script from the clone to its exit
run_metacheck(remote) ==
    LET c == clone_data(remote)
    IN  IF AfterClone(c) # None
        THEN [code |-> AfterClone(c)[1], written |-> {}]
        ELSE AfterProcess(process_study(StudyId, c.data), remote.write_fails)

InitMeta ==
    /\ \E tasks \in TaskLists, top \in SUBSET StudyTop, fail \in FailSets,
          built \in BOOLEAN, err \in CheckErrs, cf \in BOOLEAN, wf \in BOOLEAN :
          ds = [data |-> Dataset(built, err, tasks, top,
                                 [x \in TaskUniverse |-> [e \in Exts |-> 1]],
                                 0, 0, fail, <<"onset", "duration">>, 1, TRUE),
                clone_fails |-> cf,
                write_fails |-> wf]
    /\ out = None
    /\ spc = "ready"
    /\ BatchIdle

RunMetacheck ==
    /\ spc = "ready"
    /\ out' = run_metacheck(ds)
    /\ spc' = "done"
    /\ UNCHANGED <<ds, batchVars>>

NextMeta == RunMetacheck

SpecMeta == InitMeta /\ [][NextMeta]_vars

----------------------------------------------------------------------------
(* extract_filenames_and_urls (access_functions.py) on a decoded response.  *)
(* A JSON value is a record tagged with its Python type: a dict carries its *)
(* keys and values, a list its items.                                       *)

PyNone == [t |-> "none"]
PyStr(x) == [t |-> "str", s |-> x]
PyList(items) == [t |-> "list", items |-> items]
PyDict(kv) == [t |-> "dict", kv |-> kv]

EmptyDict == PyDict(<<>>)
EmptyList == PyList(<<>>)

\* a dict of one key
Entry(k, v) == [x \in {k} |-> v]

\* d.get(key, default)
DictGet(d, key, default) == IF key \in DOMAIN d.kv THEN d.kv[key] ELSE default

ReturnedValue(v) == [exc |-> "", val |-> v]
RaisedError(e) == [exc |-> e, val |-> PyNone]

extract_filenames_and_urls(response) ==
    IF response.t # "dict"
    THEN RaisedError("ValueError")
    ELSE LET data == DictGet(response, "data", EmptyDict)
         IN  IF data.t # "dict"
             THEN RaisedError("AttributeError")        \* data has no get
             ELSE LET snapshot == DictGet(data, "snapshot", EmptyDict)
                  IN  IF snapshot.t # "dict"
                      THEN RaisedError("ValueError")
                      ELSE LET files_v == DictGet(snapshot, "files", EmptyList)
                           IN  IF files_v.t # "list"
                               THEN RaisedError("ValueError")
                               ELSE ReturnedValue(
                                      [k \in 1..Len(SelectSeq(files_v.items,
                                                              LAMBDA f : f.t = "dict")) |->
                                          LET file == SelectSeq(files_v.items,
                                                                LAMBDA f : f.t = "dict")[k]
                                          IN  [filename |-> DictGet(file, "filename", PyNone),
                                               urls |-> DictGet(file, "urls", EmptyList)]])

\* the entries of a files list: whole, without urls, without filename, not a dict
FileEntries ==
    {PyDict([x \in {"filename", "urls"} |->
                IF x = "filename" THEN PyStr("participants.tsv")
                ELSE PyList(<<PyStr("https://host/participants.tsv")>>)]),
     PyDict(Entry("filename", PyStr("README"))),
     PyDict(Entry("urls", EmptyList)),
     PyStr("README")}

FilesLists == UNION {[1..n -> FileEntries] : n \in 0..MaxFiles}

\* what may stand where a dict is expected
NotADict == {PyNone, PyStr("error"), EmptyList}

\* the values of the key files, of the key snapshot, of the key data
FilesValues == {PyList(l) : l \in FilesLists} \cup {PyNone, PyStr("error")}
SnapshotValues ==
    NotADict \cup {EmptyDict} \cup {PyDict(Entry("files", f)) : f \in FilesValues}
DataValues ==
    NotADict \cup {EmptyDict} \cup {PyDict(Entry("snapshot", v)) : v \in SnapshotValues}

\* the decoded responses: with or without the key errors beside data
Responses ==
    NotADict \cup {EmptyDict, PyDict(Entry("errors", EmptyList))}
      \cup {PyDict(Entry("data", v)) : v \in DataValues}
      \cup {PyDict([x \in {"data", "errors"} |->
                       IF x = "data" THEN v ELSE EmptyList]) : v \in DataValues}

InitExtract ==
    /\ ds \in Responses
    /\ out = None
    /\ spc = "ready"
    /\ BatchIdle

ExtractFilenames ==
    /\ spc = "ready"
    /\ out' = extract_filenames_and_urls(ds)
    /\ spc' = "done"
    /\ UNCHANGED <<ds, batchVars>>

NextExtract == ExtractFilenames

SpecExtract == InitExtract /\ [][NextExtract]_vars

----------------------------------------------------------------------------
(* get_dataset_ids (access_functions.py).  ds is the catalogue the server   *)
(* holds: n datasets, the k-th with cursor k.  out is the state of the      *)
(* loop: the ids collected, the cursor of the next query (None for the      *)
(* first), and, for the properties, the pages received and the cursors      *)
(* asked for.                                                               *)

PageSize == 25              \* the loop stops at a page of fewer edges

MaxCatalogue == 51          \* datasets of the catalogue

Edge(k) == [cursor |-> k, node |-> [id |-> 7000 + k]]

\* the pages the server may answer a query with: the datasets after the
\* cursor, up to a full page, or fewer of them (a page one short, or empty)
ServerPages(n, after) ==
    LET first == IF after = None THEN 1 ELSE after[1] + 1
        last == Min({first + PageSize - 1, n})
        whole == [k \in 1..(IF last < first THEN 0 ELSE last - first + 1) |->
                     Edge(first + k - 1)]
    IN  {SubSeq(whole, 1, l) :
            l \in {Len(whole)} \cup {x \in {0, PageSize - 1} : x < Len(whole)}}

\* a loop that stops only at an empty page
LastPage_EmptyOnly(edges) == Len(edges) = 0

\* if len(edges) < 25: break
LastPage(edges) == Len(edges) < PageSize

InitPages ==
    /\ \E n \in 0..MaxCatalogue : ds = [n |-> n]
    /\ out = [dataset_ids |-> <<>>, query |-> None, pages |-> <<>>, asked |-> <<>>]
    /\ spc = "ready"
    /\ BatchIdle

\* one pass of the while loop: a request, its ids, then the break or the
\* query of the next request
RequestPage ==
    /\ spc = "ready"
    /\ \E edges \in ServerPages(ds.n, out.query) :
          /\ out' = [dataset_ids |-> out.dataset_ids
                                       \o [k \in 1..Len(edges) |-> edges[k].node.id],
                     query |-> IF LastPage(edges) THEN out.query
                               ELSE Some(edges[Len(edges)].cursor),
                     pages |-> Append(out.pages, edges),
                     asked |-> Append(out.asked, out.query)]
          /\ spc' = IF LastPage(edges) THEN "done" ELSE "ready"
    /\ UNCHANGED <<ds, batchVars>>

NextPages == RequestPage

SpecPages == InitPages /\ [][NextPages]_vars /\ WF_vars(NextPages)

----------------------------------------------------------------------------
(* append_csv (partial_run.py).  A file is None when it does not exist,     *)
(* else Some(its lines).  ds holds the call: the target file, the backup    *)
(* file of today's name, the new table, the backup flag, and the step of    *)
(* the call at which the file system fails, if any.                         *)

\* the steps at which a call can fail
Faults == {"none", "backup_refused", "backup_cut", "read", "concat", "write"}

\* what a write that fails leaves of the lines it was to write
CutShort(lines) == IF lines = <<>> THEN <<>> ELSE SubSeq(lines, 1, Len(lines) - 1)

\* an except branch that leaves the target as the failure left it
Restore_Skip(target, bak) == [target |-> target, bak |-> bak]

\* lines 69-71: the target is copied back from the backup, the backup removed
Restore(target, bak) ==
    IF bak # None THEN [target |-> bak, bak |-> None]
    ELSE [target |-> target, bak |-> bak]

\* the except branch of lines 67-73 on the files as the failure left them
Failed(target, bak, backup) ==
    LET r == IF backup THEN Restore(target, bak) ELSE [target |-> target, bak |-> bak]
    IN  [exc |-> "ValueError", target |-> r.target, bak |-> r.bak]

append_csv(call) ==
    IF call.new_df = None \/ call.new_df = Some(<<>>)
    THEN [exc |-> "", target |-> call.target, bak |-> call.bak]
    ELSE IF call.target = None
    THEN [exc |-> "ValueError", target |-> call.target, bak |-> call.bak]
    ELSE
    LET \* shutil.copy2(file_path, backup_path)
        bak1 == IF ~call.backup THEN call.bak
                ELSE IF call.fault = "backup_refused" THEN call.bak
                ELSE IF call.fault = "backup_cut" THEN Some(CutShort(call.target[1]))
                ELSE call.target
        \* pd.read_csv raises on a file of no line
        read_fails == call.fault = "read" \/ call.target[1] = <<>>
        combined == call.target[1] \o call.new_df[1]
    IN  IF call.backup /\ call.fault \in {"backup_refused", "backup_cut"}
        THEN Failed(call.target, bak1, call.backup)
        ELSE IF read_fails \/ call.fault = "concat"
        THEN Failed(call.target, bak1, call.backup)
        ELSE IF call.fault = "write"
        THEN Failed(Some(CutShort(combined)), bak1, call.backup)
        ELSE [exc |-> "", target |-> Some(combined), bak |-> bak1]

\* the files a call may find, and the tables it may be given
CsvFiles == {None, Some(<<>>), Some(<<"header">>), Some(<<"header", "row1">>),
             Some(<<"header", "row1", "row2">>)}
BackupFiles == {None, Some(<<"header">>)}
NewTables == {None, Some(<<>>), Some(<<"new1">>), Some(<<"new1", "new2">>)}

InitAppendCsv ==
    /\ \E target \in CsvFiles, bak \in BackupFiles, new_df \in NewTables,
          backup \in BOOLEAN, fault \in Faults :
          ds = [target |-> target, bak |-> bak, new_df |-> new_df,
                backup |-> backup, fault |-> fault]
    /\ out = None
    /\ spc = "ready"
    /\ BatchIdle

AppendCsv ==
    /\ spc = "ready"
    /\ out' = append_csv(ds)
    /\ spc' = "done"
    /\ UNCHANGED <<ds, batchVars>>

NextAppendCsv == AppendCsv

SpecAppendCsv == InitAppendCsv /\ [][NextAppendCsv]_vars

----------------------------------------------------------------------------
(* Properties of the file check and of the audit of one dataset *)

Locations == {"top", "func", "lower", "missing"}

\* C1: in every row of check_basics that carries a location (top, func, lower
\* or missing), the presence flag is 0 if the location is missing and 1
\* otherwise.
C1_PresenceIffMissing ==
    spc = "done" =>
        \A k \in 1..Len(out) :
            out[k].location \in Locations =>
                /\ out[k].presence \in {0, 1}
                /\ out[k].presence = 0 <=> out[k].location = "missing"

\* a file check that gave a missing row and a func row
C1_Witness ==
    /\ spc = "done"
    /\ \E k \in 1..Len(out) : out[k].location = "missing" /\ out[k].presence = 0
    /\ \E k \in 1..Len(out) : out[k].location = "func" /\ out[k].presence = 1

\* C8: whichever step fails, process_study returns a bundle and lets no
\* exception reach its caller.
C8_StepFailureContained ==
    spc = "done" => out.exc = "" /\ out.bundle # None

KeysOf(df) == {df[k].key : k \in 1..Len(df)}

\* the column set of the task's events table, minus study_id
EventKeys(d, task) == Range(d.ev[task].cols) \ {"study_id"}

\* an Event Record set of the task with these keys is in the bundle
HasEventSet(bundle, task, keys) ==
    \E k \in 1..Len(bundle.events) :
        /\ KeysOf(bundle.events[k]) = keys
        /\ \A j \in 1..Len(bundle.events[k]) : bundle.events[k][j].task = task

\* the non-resting tasks whose events table the File-Presence set has as
\* present and whose table is read without error
ReadableEventTasks ==
    {t \in Range(NonRest(ds.tasks)) :
        /\ file_present(out.bundle[1].basics, EventsTsvName(t))
        /\ EventCall(t) \notin ds.fail}

RowsOf(df, file) == SelectSeq(df, LAMBDA r : r.file = file)

\* C10: for a dataset without participants.tsv, participant extraction is
\* not attempted and a returned bundle holds no Participant Records; the
\* File-Presence rows, when the file check gave any, hold one row for
\* participants.tsv, with location missing and presence 0.
C10_NoParticipantsTable ==
    (spc = "done" /\ F_part_tsv \notin ds.top) =>
        /\ <<"participant">> \notin out.calls
        /\ out.exc = "" =>
             /\ out.bundle[1].participant = None
             /\ out.bundle[1].basics[1].file # NoneName =>
                  LET rows == RowsOf(out.bundle[1].basics, F_part_tsv)
                  IN  /\ Len(rows) = 1
                      /\ rows[1].location = "missing"
                      /\ rows[1].presence = 0
                      /\ rows[1].n_files = 0

\* an audit of a dataset without participants.tsv that returned a bundle
\* with File-Presence rows, a summary and an Event Record set
C10_Witness ==
    /\ spc = "done" /\ F_part_tsv \notin ds.top /\ F_part_json \in ds.top
    /\ out.exc = ""
    /\ out.bundle[1].basics[1].file # NoneName
    /\ out.bundle[1].compilesumm # None
    /\ out.bundle[1].events # <<>>
    /\ out.bundle[1].participant = None

\* the exception indexing raises inside check_basics, "" when it raises none;
\* a layout that was never built gives AttributeError at get_tasks
IndexingError(d) ==
    IF ~d.built THEN "AttributeError"
    ELSE CASE d.check_err = "conflict"   -> "BIDSConflictingValuesError"
           [] d.check_err = "validation" -> "BIDSValidationError"
           [] d.check_err = "other"      -> "Exception"
           [] OTHER                      -> ""

\* C12: when indexing fails inside check_basics, it returns exactly one row,
\* of the dataset, with file, location and n_files empty and with presence
\* bids_validation_error for a validation failure and bids_conflict_error for
\* a metadata conflict or any other exception.
C12_SentinelRow ==
    (spc = "done" /\ IndexingError(ds) # "") =>
        /\ Len(out) = 1
        /\ out[1].study_id = StudyId
        /\ out[1].file = NoneName
        /\ out[1].location = "None"
        /\ out[1].n_files = "None"
        /\ out[1].presence = IF IndexingError(ds) = "BIDSValidationError"
                             THEN "bids_validation_error"
                             ELSE "bids_conflict_error"

\* a file check whose indexing failed validation
C12_Witness ==
    /\ spc = "done" /\ Len(out) = 1
    /\ IndexingError(ds) = "BIDSValidationError"
    /\ out[1].presence = "bids_validation_error"
    /\ out[1].file = NoneName

\* the events files of a task with an extension that the layout finds: those
\* below the top level and the one at the top level
EventFilesFound(d, t, e) ==
    d.func[t][e] + (IF (TaskPfx \o t \o EventsSfx \o e) \in d.top THEN 1 ELSE 0)

\* the row of a file is classified so, with this count
RowIs(rows, f, location, n) ==
    \E k \in 1..Len(rows) :
        rows[k].file = f /\ rows[k].location = location /\ rows[k].n_files = n

\* C17: check_basics classifies each name by the first rule that applies:
\* scans.tsv and sessions.tsv are lower or missing by the tree-wide lookup,
\* whatever the top level holds; else a name found at the top level is top
\* with n_files 1; else a name whose leading task token is a non-resting task
\* is func with the number of the task's events files of that extension, or
\* missing when there is none; else the name is missing with n_files 0.
C17_FirstRuleApplies ==
    (spc = "done" /\ IndexingError(ds) = "") =>
        /\ RowIs(out, F_scans, IF ds.scans > 0 THEN "lower" ELSE "missing", ds.scans)
        /\ RowIs(out, F_sessions,
                 IF ds.sessions > 0 THEN "lower" ELSE "missing", ds.sessions)
        /\ \A f \in {F_CHANGES, F_README, F_part_json, F_part_tsv, F_description} :
              IF f \in ds.top THEN RowIs(out, f, "top", 1)
              ELSE RowIs(out, f, "missing", 0)
        /\ \A t \in Range(NonRest(ds.tasks)) :
              \A f \in Range(TaskFiles(t)) :
                 LET n == EventFilesFound(ds, t, NormExt(SplitExt(f)))
                 IN  IF f \in ds.top THEN RowIs(out, f, "top", 1)
                     ELSE IF n > 0 THEN RowIs(out, f, "func", n)
                     ELSE RowIs(out, f, "missing", 0)
        /\ \A k \in 1..Len(out) :
              \A j \in 1..Len(out) : out[k].file = out[j].file => k = j

\* a file check of a dataset with a top-level scans.tsv that the lookup does
\* not find, a top-level events.json and two events.tsv files below
C17_Witness ==
    /\ spc = "done" /\ IndexingError(ds) = ""
    /\ F_scans \in ds.top /\ ds.scans = 0
    /\ RowIs(out, F_scans, "missing", 0)
    /\ RowIs(out, EventsJsonName(T_nb), "top", 1)
    /\ RowIs(out, EventsTsvName(T_nb), "func", 2)
    /\ RowIs(out, F_CHANGES, "missing", 0)

\* C29: for a non-resting task with neither its bold.json nor its
\* events.json at the top level, the rows of the two names have the same
\* location and the same n_files, those of the lookup of the task's events
\* .json files, whatever bold sidecars the dataset holds.
C29_BoldRowFollowsEvents ==
    (spc = "done" /\ IndexingError(ds) = "") =>
        \A t \in Range(NonRest(ds.tasks)) :
            (BoldJsonName(t) \notin ds.top /\ EventsJsonName(t) \notin ds.top) =>
                LET n == EventFilesFound(ds, t, Json)
                    loc == IF n > 0 THEN "func" ELSE "missing"
                IN  /\ RowIs(out, BoldJsonName(t), loc, n)
                    /\ RowIs(out, EventsJsonName(t), loc, n)
                    /\ Len(RowsOf(out, BoldJsonName(t))) = 1
                    /\ Len(RowsOf(out, EventsJsonName(t))) = 1

\* a file check of a dataset with one bold sidecar of task go and no events
\* .json file: the bold.json row is missing
C29_Witness ==
    /\ spc = "done" /\ IndexingError(ds) = ""
    /\ T_go \in Range(ds.tasks)
    /\ BoldJsonName(T_go) \notin ds.top
    /\ ds.bold[T_go] = 1 /\ ds.func[T_go][Json] = 0
    /\ RowIs(out, BoldJsonName(T_go), "missing", 0)
    /\ RowIs(out, EventsJsonName(T_go), "missing", 0)

\* C18: a file check that indexed the dataset returns 7 + 3 |N| rows, N the
\* tasks whose name does not start with rest in any case: one row for each of
\* the seven baseline names and one for each of the three task files of each
\* task of N; no row for a resting task.
C18_RowCount ==
    (spc = "done" /\ IndexingError(ds) = "") =>
        LET N == Range(ds.tasks) \ {T_Rest}
            names == {out[k].file : k \in 1..Len(out)}
        IN  /\ Len(out) = 7 + 3 * Cardinality(N)
            /\ names = Range(files_to_check)
                         \cup UNION {{EventsJsonName(t), EventsTsvName(t), BoldJsonName(t)} :
                                        t \in N}
            /\ Cardinality(names) = Len(out)
            /\ \A f \in Range(TaskFiles(T_Rest)) : f \notin names

\* a file check of a dataset with the tasks REst, go and nb: 13 rows
C18_Witness ==
    /\ spc = "done" /\ IndexingError(ds) = ""
    /\ ds.tasks = <<T_Rest, T_go, T_nb>>
    /\ Len(out) = 13

\* C13: in every Dataset Summary row num_sessions and num_runs are at least
\* 1; they are 1 for a layout that lists no session or no run.
C13_CountsAtLeastOne ==
    (spc = "done" /\ out.exc = "" /\ out.bundle[1].compilesumm # None) =>
        LET summ == out.bundle[1].compilesumm[1][1]
        IN  /\ summ.num_sessions >= 1
            /\ summ.num_runs >= 1
            /\ ds.nsessions = 0 => summ.num_sessions = 1
            /\ ds.runs = 0 => summ.num_runs = 1
            /\ ds.nsessions > 0 => summ.num_sessions = ds.nsessions
            /\ ds.runs > 0 => summ.num_runs = ds.runs

\* a summary of a dataset whose layout lists no session and two runs
C13_Witness ==
    /\ spc = "done" /\ out.exc = ""
    /\ ds.nsessions = 0 /\ ds.runs = 2
    /\ out.bundle[1].compilesumm # None
    /\ out.bundle[1].compilesumm[1][1].num_sessions = 1
    /\ out.bundle[1].compilesumm[1][1].num_runs = 2

\* the File-Presence rows are those of a file check that indexed the dataset
Indexed(bundle) == bundle.basics[1].file # NoneName

\* C11: for a non-resting task whose events.tsv and events.json are both at
\* the top level, the three File-Presence rows of the task are classified top
\* or func with presence 1, and the Dataset Summary row counts the subjects
\* and has the task among nonrest_tasks.
C11_TopLevelTaskFiles ==
    (spc = "done" /\ out.exc = "" /\ Indexed(out.bundle[1])) =>
        \A t \in Range(NonRest(ds.tasks)) :
            ({EventsTsvName(t), EventsJsonName(t)} \subseteq ds.top) =>
                /\ \A f \in Range(TaskFiles(t)) :
                      LET rows == RowsOf(out.bundle[1].basics, f)
                      IN  /\ Len(rows) = 1
                          /\ rows[1].location \in {"top", "func"}
                          /\ rows[1].presence = 1
                          /\ rows[1].n_files >= 1
                /\ out.bundle[1].compilesumm # None
                /\ LET summ == out.bundle[1].compilesumm[1][1]
                   IN  /\ summ.num_subs = Len(ds.subs)
                       /\ t \in Range(summ.nonrest_tasks)

\* an audit of a dataset with both files of task nb at the top level and
\* none below it: the bold.json row is found through the events lookup
C11_Witness ==
    /\ spc = "done" /\ out.exc = "" /\ Indexed(out.bundle[1])
    /\ T_nb \in Range(ds.tasks)
    /\ {EventsTsvName(T_nb), EventsJsonName(T_nb)} \subseteq ds.top
    /\ ds.func[T_nb][Json] = 0
    /\ RowsOf(out.bundle[1].basics, EventsJsonName(T_nb))[1].location = "top"
    /\ RowsOf(out.bundle[1].basics, BoldJsonName(T_nb))[1].location = "func"
    /\ out.bundle[1].compilesumm[1][1].num_subs = 2

\* C22: for a dataset whose layout could not be built, process_study returns
\* a bundle without summary, descriptor and participant records and with an
\* empty events list; no later step is attempted, and the File-Presence
\* field holds no row with a 0/1 presence: it is empty or one error row.
C22_NoLayoutBundle ==
    (spc = "done" /\ ~ds.built) =>
        /\ out.exc = "" /\ out.bundle # None
        /\ out.calls = {}
        /\ LET bundle == out.bundle[1]
           IN  /\ bundle.compilesumm = None
               /\ bundle.descriptor = None
               /\ bundle.participant = None
               /\ bundle.events = <<>>
               /\ \/ bundle.basics = <<>>
                  \/ /\ Len(bundle.basics) = 1
                     /\ bundle.basics[1].file = NoneName
                     /\ bundle.basics[1].presence
                           \in {"bids_conflict_error", "bids_validation_error"}

\* an audit of a directory with participants.tsv, a task with events files
\* and a step set to fail, whose layout could not be built
C22_Witness ==
    /\ spc = "done" /\ ~ds.built
    /\ F_part_tsv \in ds.top /\ T_nb \in Range(ds.tasks)
    /\ ds.fail = {<<"summary">>}
    /\ out.exc = ""
    /\ out.bundle[1].basics[1].presence = "bids_conflict_error"
    /\ out.bundle[1].compilesumm = None

\* the File-Presence rows have the task's events.tsv with presence 1
EventsTablePresent(basics_df, t) ==
    \E k \in 1..Len(basics_df) :
        basics_df[k].file = EventsTsvName(t) /\ basics_df[k].presence = 1

\* the Event Record sets of the bundle that hold a record of the task
EventSetsOf(bundle, t) ==
    {k \in 1..Len(bundle.events) :
        \E j \in 1..Len(bundle.events[k]) : bundle.events[k][j].task = t}

\* C23: process_study attempts the event extraction of no task but the
\* non-resting tasks whose events.tsv row has presence 1; when it returns,
\* it has attempted each of them, the bundle holds at most one set per
\* attempt, none of a task whose extraction raised, and the set of every
\* other attempted task with a non-empty table, whichever extraction raised.
C23_EventFailureIsolated ==
    spc = "done" =>
        /\ \A t \in TaskUniverse :
              EventCall(t) \in out.calls =>
                 /\ t \in Range(NonRest(ds.tasks))
                 /\ EventsTablePresent(check_basics(basic_layout(ds).layout, StudyId), t)
        /\ out.exc = "" =>
              LET bundle == out.bundle[1]
                  attempted == {t \in Range(NonRest(ds.tasks)) :
                                   EventsTablePresent(bundle.basics, t)}
              IN  /\ \A t \in attempted : EventCall(t) \in out.calls
                  /\ Len(bundle.events) <= Cardinality(attempted)
                  /\ \A t \in attempted :
                        IF EventCall(t) \in ds.fail
                        THEN EventSetsOf(bundle, t) = {}
                        ELSE (ds.ev[t].nrows >= 1 /\ EventKeys(ds, t) # {}) =>
                                /\ Cardinality(EventSetsOf(bundle, t)) = 1
                                /\ HasEventSet(bundle, t, EventKeys(ds, t))

\* an audit of the tasks go and nb, both with an events table: the
\* extraction of go raised, the records of nb are in the bundle
C23_Witness ==
    /\ spc = "done" /\ out.exc = ""
    /\ ds.tasks = <<T_Rest, T_go, T_nb>>
    /\ ds.fail = {EventCall(T_go)}
    /\ {EventCall(T_go), EventCall(T_nb)} \subseteq out.calls
    /\ EventCall(T_Rest) \notin out.calls
    /\ Len(out.bundle[1].events) = 1
    /\ HasEventSet(out.bundle[1], T_nb, {"onset", "duration"})

\* the sidecar tag of a Participant or Event record
TagOf(rec) ==
    IF "task" \in DOMAIN rec THEN rec.eventkeys_in_json ELSE rec.partkeys_in_json

\* the top-level keys of the sidecar the extractor loads, none when the
\* lookup finds no sidecar file
SidecarKeys(call) ==
    IF call.which = "participant"
    THEN IF F_part_json \in call.data.top THEN call.data.part_keys ELSE {}
    ELSE IF EventFilesFound(call.data, T_nb, Json) > 0
         THEN call.data.ev_keys[T_nb] ELSE {}

\* C24: in a returned Participant or Event Record set, with the sidecar
\* marked present every record is tagged 1 if its key is a top-level key of
\* the sidecar found and 0 otherwise (0 for every record when none is found);
\* with the sidecar marked absent every record is tagged json_notavailable;
\* two records of the same key carry the same tag.
C24_SidecarTag ==
    (spc = "done" /\ out.exc = "") =>
        /\ \A k \in 1..Len(out.df) :
              IF ds.json_exists
              THEN TagOf(out.df[k])
                     = (IF out.df[k].key \in SidecarKeys(ds) THEN 1 ELSE 0)
              ELSE TagOf(out.df[k]) = "json_notavailable"
        /\ \A k \in 1..Len(out.df) :
              \A j \in 1..Len(out.df) :
                 out.df[k].key = out.df[j].key => TagOf(out.df[k]) = TagOf(out.df[j])

\* an Event Record set of a two-row table whose sidecar describes onset and
\* not duration
C24_Witness ==
    /\ spc = "done" /\ out.exc = ""
    /\ ds.which = "event" /\ ds.json_exists
    /\ Len(out.df) = 4
    /\ \E k \in 1..Len(out.df) : out.df[k].key = "onset" /\ TagOf(out.df[k]) = 1
    /\ \E k \in 1..Len(out.df) : out.df[k].key = "duration" /\ TagOf(out.df[k]) = 0

\* C26: in every Dataset Summary row min_sessions and max_sessions are at
\* least 1 and min_sessions is at most max_sessions, whether the dataset has
\* subjects or not and whether its subjects have sessions or not.
C26_SessionBounds ==
    (spc = "done" /\ out.exc = "" /\ out.bundle[1].compilesumm # None) =>
        LET summ == out.bundle[1].compilesumm[1][1]
        IN  /\ summ.min_sessions >= 1
            /\ summ.max_sessions >= 1
            /\ summ.min_sessions <= summ.max_sessions

\* C30: for a dataset whose layout was built and whose file check failed,
\* process_study attempts the summary and no participant or event
\* extraction; when it returns, the bundle holds the sentinel row, a summary
\* and the descriptor records, and no Participant and no Event records; it
\* returns unless the summary or the descriptor step itself raises.
C30_FailedCheckKeepsSummary ==
    (spc = "done" /\ ds.built /\ ds.check_err # "none") =>
        /\ <<"summary">> \in out.calls
        /\ <<"participant">> \notin out.calls
        /\ \A t \in TaskUniverse : EventCall(t) \notin out.calls
        /\ (ds.fail \cap {<<"summary">>, <<"descriptor">>} = {}) => out.exc = ""
        /\ out.exc = "" =>
              LET bundle == out.bundle[1]
              IN  /\ ~Indexed(bundle) /\ Len(bundle.basics) = 1
                  /\ bundle.compilesumm # None
                  /\ bundle.compilesumm[1][1].num_subs = Len(ds.subs)
                  /\ bundle.descriptor # None /\ bundle.descriptor[1] # <<>>
                  /\ bundle.participant = None
                  /\ bundle.events = <<>>

\* an audit of a dataset with participants.tsv and an events table of task
\* nb whose file check failed validation
C30_Witness ==
    /\ spc = "done" /\ ds.built /\ ds.check_err = "validation"
    /\ {F_part_tsv, EventsTsvName(T_nb)} \subseteq ds.top
    /\ T_nb \in Range(ds.tasks)
    /\ ds.fail = {}
    /\ out.exc = ""
    /\ out.bundle[1].basics[1].presence = "bids_validation_error"
    /\ out.bundle[1].compilesumm # None /\ out.bundle[1].descriptor # None
    /\ out.bundle[1].participant = None /\ out.bundle[1].events = <<>>

----------------------------------------------------------------------------
(* Properties of the single-dataset run *)

\* C14: the single-dataset run exits with code 0 only when the dataset was
\* cloned, process_study returned a bundle and every result file of the
\* bundle was written; it exits with a non-zero code whenever the clone
\* fails or process_study raises.
C14_ExitCode ==
    spc = "done" =>
        LET c == clone_data(ds)
            r == process_study(StudyId, c.data)
        IN  /\ out.code \in {0, 1}
            /\ out.code = 0 =>
                 /\ ~ds.clone_fails
                 /\ r.exc = "" /\ r.bundle # None
                 /\ ~ds.write_fails
                 /\ {"basics", "events"} \subseteq out.written
                 /\ "compilesumm" \in out.written <=> r.bundle[1].compilesumm # None
                 /\ "participant" \in out.written <=> r.bundle[1].participant # None
            /\ ds.clone_fails => out.code # 0 /\ out.written = {}
            /\ (~ds.clone_fails /\ r.exc # "") => out.code # 0 /\ out.written = {}

\* a run that cloned the dataset, wrote the five files and exited with 0
C14_Witness ==
    /\ spc = "done"
    /\ ~ds.clone_fails /\ ~ds.write_fails
    /\ out.code = 0
    /\ Cardinality(out.written) = 5

----------------------------------------------------------------------------
(* Properties of extract_filenames_and_urls *)

\* the response is a dict that holds data, snapshot and files, nested
HasExpectedKeys(response) ==
    /\ response.t = "dict"
    /\ "data" \in DOMAIN response.kv
    /\ response.kv["data"].t = "dict"
    /\ "snapshot" \in DOMAIN response.kv["data"].kv
    /\ response.kv["data"].kv["snapshot"].t = "dict"
    /\ "files" \in DOMAIN response.kv["data"].kv["snapshot"].kv

\* C15: extract_filenames_and_urls raises ValueError for a response that is
\* not a dictionary or that lacks one of the keys data, snapshot, files, and
\* returns a list only for a response that has them.
C15_ValueErrorOnMissingKeys ==
    spc = "done" =>
        /\ ~HasExpectedKeys(ds) => out.exc = "ValueError"
        /\ out.exc = "" => HasExpectedKeys(ds)

----------------------------------------------------------------------------
(* Properties of get_dataset_ids *)

PagesInOrder ==
    /\ \A k \in 1..Len(out.pages) :
          /\ out.asked[k] = IF k = 1 THEN None
                            ELSE Some(out.pages[k - 1][Len(out.pages[k - 1])].cursor)
          /\ k < Len(out.pages) => Len(out.pages[k]) >= PageSize
    /\ Len(out.asked) = Len(out.pages)
    /\ spc = "done" <=> (out.pages # <<>> /\ Len(out.pages[Len(out.pages)]) < PageSize)
    /\ out.dataset_ids
         = Flatten([k \in 1..Len(out.pages) |->
                      [j \in 1..Len(out.pages[k]) |-> out.pages[k][j].node.id]])

\* C25: every request after the first asks for the datasets after the cursor
\* of the last edge of the page before; no request follows a page of fewer
\* than 25 edges; the ids collected are those of the edges received, in the
\* order received; and the loop ends.
C25_PagesUntilShort == []PagesInOrder /\ <>(spc = "done")

\* two full pages and a last page of one edge: 51 ids
C25_Witness ==
    /\ spc = "done"
    /\ Len(out.pages) = 3
    /\ Len(out.pages[3]) = 1
    /\ Len(out.dataset_ids) = 2 * PageSize + 1
    /\ out.asked = <<None, Some(PageSize), Some(2 * PageSize)>>

----------------------------------------------------------------------------
(* Properties of append_csv *)

HasRows(new_df) == new_df # None /\ new_df # Some(<<>>)

\* the call fails at reading, combining or writing, the backup being taken
FailsAfterBackup(call) ==
    /\ HasRows(call.new_df) /\ call.target # None /\ call.backup
    /\ \/ call.fault \in {"read", "concat", "write"}
       \/ call.fault = "none" /\ call.target[1] = <<>>

----------------------------------------------------------------------------
(* Properties of the batch run *)

IsPrefix(s, t) == Len(s) <= Len(t) /\ SubSeq(t, 1, Len(s)) = s

IsHeader(line) == "header" \in DOMAIN line

\* the rows of a dataset in an output file
RowsOfStudy(file, id) ==
    SelectSeq(file, LAMBDA line : ~IsHeader(line) /\ line.study_id = id)

\* the rows a result bundle gives to a table
BundleRows(bundle, table) == Flatten(Extract(<<bundle>>, table))

\* the rows of a table in a sequence of appended result lists, in append order
AllRows(table, hist) ==
    Flatten([k \in 1..Len(hist) |-> Flatten(Extract(hist[k], table))])

\* the calls that gave the table a DataFrame
Wrote(table, hist) == \E k \in 1..Len(hist) : Extract(hist[k], table) # <<>>

\* C2: a dataset whose directory holds more than 900 entries is never
\* dispatched to a worker, has no row in any of the five output tables, and is
\* listed in the skipped report printed at startup (and in the one printed
\* after the last batch, when the run gets there).
C2_OverCeilingSkipped ==
    \A id \in DOMAIN dir :
        dir[id].count > FileCeiling =>
            /\ id \notin Range(dispatched)
            /\ \A t \in Tables : RowsOfStudy(files[t], id) = <<>>
            /\ pc # "start" =>
                 /\ stdout # <<>>
                 /\ id \in Range(stdout[1].ids)
            /\ pc = "done" =>
                 /\ Len(stdout) = 2
                 /\ id \in Range(stdout[2].ids)

\* a run that appended a batch while a dataset of 901 entries was set aside
C2_Witness ==
    /\ pc = "crashed" /\ exit = "NameError"
    /\ \E id \in DOMAIN dir : dir[id].count = FileCeiling + 1
    /\ \E id \in DOMAIN dir : dir[id].count = FileCeiling /\ id \in Range(dispatched)
    /\ history # <<>>

BatchOver ==
    \/ pc = "crashed" /\ exit \in {"NameError", "TimeoutError"}
    \/ pc = "loop" /\ batch # <<>>

\* every row of the dataset's bundle is in the output tables
Appended(id) ==
    \A t \in Tables :
        RowsOfStudy(files[t], id) = BundleRows(Worker(id).bundle[1], t)

\* C3: when a batch is over, a task of it that raised or that was still
\* awaited when the timeout expired has no row in the output tables, and the
\* result of every other task of the batch is in the output tables.
C3_FailedTaskIsolated ==
    BatchOver =>
        \A d \in Range(batch) :
            IF Worker(d).exc # "" \/ d \in unfinished
            THEN \A t \in Tables : RowsOfStudy(files[t], d) = <<>>
            ELSE Appended(d)

\* the datasets whose task failed in this run
FailedIds == {errlog[k][1] : k \in 1..Len(errlog)} \cup unfinished

\* C4: when the run has gone through all batches, its final report lists
\* every failed dataset and every skipped dataset.
C4_FinalReportListsFailed ==
    pc = "done" =>
        \A id \in FailedIds \cup Range(ids_skipped) :
            \E k \in 1..Len(stdout) :
                /\ stdout[k].title = "SKIPPED DATASETS - Rerun these individually"
                /\ id \in Range(stdout[k].ids)

\* C5: after any sequence of calls of append_results_to_files, a table file
\* exists exactly if a call gave it a DataFrame, and then holds one header
\* row followed by the rows of every call in call order.
C5_OneHeaderThenRows ==
    \A t \in Tables :
        IF Wrote(t, history)
        THEN files[t] = <<HeaderLine(t)>> \o AllRows(t, history)
        ELSE files[t] = <<>>

\* three calls: the first creates two of the files, the later ones the rest
C5_Witness ==
    /\ Len(history) = 3
    /\ Len(history[1]) = 1 /\ Len(history[2]) = 2 /\ Len(history[3]) = 2
    /\ ~Wrote("events", <<history[1]>>)
    /\ \A t \in Tables : Len(files[t]) > 2

\* the output tables after the calls of hist on the tables fs
RECURSIVE AppendAll(_, _)
AppendAll(fs, hist) ==
    IF hist = <<>> THEN fs
    ELSE AppendAll(append_results_to_files(fs, Head(hist)), Tail(hist))

\* C6: no step of the run, a crash included, removes or changes a line of an
\* output table, and the tables hold the rows of every batch whose append
\* finished, after the rows earlier runs left.
C6_CrashKeepsAppendedRows ==
    [][\A t \in Tables :
          /\ IsPrefix(files[t], files'[t])
          /\ IsPrefix(AppendAll(files0', history')[t], files'[t])]_vars

\* a run killed inside the append, on tables an earlier run left
C6_Witness ==
    /\ pc = "crashed" /\ exit = "killed"
    /\ files0 = PriorFiles
    /\ files # files0
    /\ files["events"] = files0["events"]
    /\ \A t \in Tables : IsPrefix(PriorFiles[t], files[t])

\* the bundles of the datasets of a list whose task returns, in list order
ReturnedBundles(list) ==
    Flatten([k \in 1..Len(list) |-> Worker(list[k]).bundle])

\* C7: at the end of a run in which no wait timed out, the output tables
\* hold, as sets of rows, what one batch of all the datasets gives, whatever
\* the batch size and the completion order.
C7_BatchingIrrelevant ==
    (pc = "done" \/ (pc = "crashed" /\ exit = "NameError")) =>
        \A t \in Tables :
            Range(files[t])
              = Range(append_results_to_files(files0, ReturnedBundles(study_list))[t])

\* C19: when the wait of a batch times out with tasks unfinished, the run
\* is not aborted: it appends the results collected so far and goes on to the
\* next batch.
C19_TimeoutMovesOn ==
    (unfinished # {} /\ pc # "unwind" /\ exit # "killed") =>
        /\ pc \in {"loop", "collect", "done"}
        /\ exit = ""

\* C20: a step that writes an output table is taken only when every task of
\* the current batch has been yielded, and it dispatches nothing; a step that
\* dispatches a batch writes no table and is taken only when every task of
\* the batch before has been yielded.
C20_BatchesInSequence ==
    [][/\ (files' # files) =>
            /\ \A d \in DOMAIN fut : fut[d] = "yielded"
            /\ dispatched' = dispatched
       /\ (dispatched' # dispatched) =>
            /\ files' = files
            /\ \A d \in DOMAIN fut : fut[d] = "yielded"]_vars

\* a second batch was dispatched after a first one that gave no result, and
\* its result was appended
C20_Witness ==
    /\ pc = "crashed" /\ exit = "NameError"
    /\ Len(dispatched) = 2 /\ Len(batch) = 1
    /\ Len(history) = 1
    /\ files # files0

\* the number of times a dataset was submitted to a worker
TimesDispatched(id) == Cardinality({k \in 1..Len(dispatched) : dispatched[k] = id})

\* C21: a run that nothing stops from outside ends only after it has gone
\* through all its batches: when it is over, every dataset of the list it
\* loops over has been dispatched exactly once.
C21_AllDispatchedThenEnd ==
    (pc \in {"done", "crashed"} /\ exit # "killed") =>
        /\ pc = "done"
        /\ \A k \in 1..Len(study_list) : TimesDispatched(study_list[k]) = 1

\* the datasets a skipped report of the run lists
Reported == UNION {Range(stdout[k].ids) : k \in 1..Len(stdout)}

\* C27: when the run has gone through all its batches, every dataset
\* directory found at startup was dispatched to a worker or is listed in a
\* skipped report.
C27_NoDatasetDropped ==
    pc = "done" => \A id \in DOMAIN dir : id \in Range(dispatched) \cup Reported

\* C28: whatever earlier runs on the same directory and output folder left,
\* the rows of a dataset are in each output table at most once: a table holds
\* no row of the dataset or exactly the rows of its bundle.
C28_RerunAppendsNothingTwice ==
    \A id \in DOMAIN dir :
        Worker(id).exc = "" =>
            \A t \in Tables :
                \/ RowsOfStudy(files[t], id) = <<>>
                \/ RowsOfStudy(files[t], id) = BundleRows(Worker(id).bundle[1], t)

=============================================================================
